---- MODULE Spec2Model ----
(***************************************************************************)
(* Model of lib/Target/LLVMIR/LLVMIRTranslation.cpp: the NVVM metadata of  *)
(* an MLIR module's LLVM functions is extracted into a name-keyed table,   *)
(* the module is translated to LLVM IR and optimised, and the metadata is  *)
(* re-attached to the functions of the optimised module as operands of the *)
(* named metadata "nvvm.annotations".                                      *)
(*                                                                         *)
(* A 64-bit attribute value is kept as its two 32-bit words: hi is the     *)
(* signed high word, lo the low word read as a two's-complement int, so    *)
(* the value is hi * 2^32 + (lo mod 2^32).                                 *)
(***************************************************************************)
EXTENDS Integers, Sequences, FiniteSets, TLC

VARIABLES
    pc,                \* position of the process: idle, inside TranslateLLVMToLLVMIR, returned, crashed
    srcModule,         \* the mlir::ModuleOp of the current request: function name -> attributes
    nvvmMetadata,      \* llvm::DenseMap<StringRef, NVVMMetadata> nvvmMetadata
    llvmModule,        \* std::unique_ptr<llvm::Module> llvmModule
    preAnnotations,    \* nvvm.annotations as the translator and the optimiser left it
    result,            \* the value TranslateLLVMToLLVMIR returned
    errs,              \* what the current request wrote to llvm::errs()
    steps,             \* the callees the current request has executed
    translatorResult,  \* what mlir::translateModuleToLLVMIR returned in this request
    optimizerResult,   \* what optPipeline returned in this request
    prevKeys,          \* keys of the table of the previous request
    dialectRegistered, \* the LLVM dialect translation is registered on the context
    llvmInitialized    \* ::triton::driver::init_llvm() has run in this process

vars == <<pc, srcModule, nvvmMetadata, llvmModule, preAnnotations, result, errs,
          steps, translatorResult, optimizerResult, prevKeys, dialectRegistered,
          llvmInitialized>>

(***************************************************************************)
(* Bounds and sample domains                                               *)
(***************************************************************************)
MaxPre == 2

Names == {"kernel0", "helper"}

NameOrder == <<"kernel0", "helper">>

INT32_MAX == 2147483647

I64(h, l) == [kind |-> "int", hi |-> h, lo |-> l]

NoAttr == [kind |-> "none", hi |-> 0, lo |-> 0]

StrAttr == [kind |-> "str", hi |-> 0, lo |-> 0]

\* 256, 0, -1, 2^32 + 256, 2^32 - 1, 2^31 - 1
IntAttrs == {I64(0, 256), I64(0, 0), I64(-1, -1), I64(1, 256), I64(0, -1), I64(0, INT32_MAX)}

MaxNTidAttrs == {NoAttr, StrAttr} \cup IntAttrs

LLVMFuncOps == [maxntid : MaxNTidAttrs, kernel : BOOLEAN]

ModuleOps == UNION {[S -> LLVMFuncOps] : S \in SUBSET Names}

\* every iteration order over a set of function names
Orders(S) == {s \in [1..Cardinality(S) -> S] : \A i, j \in 1..Cardinality(S) : s[i] = s[j] => i = j}

\* the outcomes of calling getInt() on the null IntegerAttr that dyn_cast yields
UBOutcomes == {[crash |-> TRUE, value |-> 0], [crash |-> FALSE, value |-> 64],
               [crash |-> FALSE, value |-> -1]}

PreEntries == {<<"kernel0", "maxnreg", 32>>, <<"helper", "minctasm", 2>>}

PreSeqs == UNION {[1..n -> PreEntries] : n \in 0..MaxPre}

OptErrors == {"pipeline error"}

\* the functions of an output module, in module order
FunctionLists == {SelectSeq(NameOrder, LAMBDA n : n \in S) : S \in SUBSET Names}

(***************************************************************************)
(* struct NVVMMetadata and the table                                       *)
(***************************************************************************)
NVVMMetadata == [maxntidx |-> -1, is_kernel |-> FALSE]

EmptyTable == << >>

NewSideTable_Static(old) == old

\* the declaration of the table local to one call
NewSideTable(old) == EmptyTable

\* DenseMap::try_emplace: inserts unless the key is present
try_emplace(dic, key, value) ==
    IF key \in DOMAIN dic THEN dic
    ELSE [k \in DOMAIN dic \cup {key} |-> IF k = key THEN value ELSE dic[k]]

\* int maxntidx = <int64_t>: the low 32 bits, two's complement
Narrow(attr) == attr.lo

(***************************************************************************)
(* extractNVVMMetadata                                                     *)
(***************************************************************************)
HasMetadata_OnlyMaxNTid(op) == op.maxntid.kind # "none"

HasMetadata(op) == op.maxntid.kind # "none" \/ op.kernel

MetaOf(op, ub) ==
    [maxntidx |-> IF op.maxntid.kind = "none" THEN NVVMMetadata.maxntidx
                  ELSE IF op.maxntid.kind = "int" THEN Narrow(op.maxntid)
                  ELSE ub.value,
     is_kernel |-> IF op.kernel THEN TRUE ELSE NVVMMetadata.is_kernel]

RECURSIVE extractNVVMMetadata(_, _, _, _)
extractNVVMMetadata(ops, module, dic, ub) ==
    IF ops = << >> THEN [dic |-> dic, crashed |-> FALSE]
    ELSE LET name == Head(ops)
             op == module[name]
         IN  IF op.maxntid.kind = "str" /\ ub.crash
             THEN [dic |-> dic, crashed |-> TRUE]
             ELSE extractNVVMMetadata(Tail(ops), module,
                      IF HasMetadata(op) THEN try_emplace(dic, name, MetaOf(op, ub)) ELSE dic,
                      ub)

(***************************************************************************)
(* amendLLVMFunc and the re-attachment loop                                *)
(***************************************************************************)
amendLLVMFunc_ElseIf(annotations, func, metadata) ==
    IF metadata.maxntidx > 0
    THEN Append(annotations, <<func, "maxntidx", metadata.maxntidx>>)
    ELSE IF metadata.is_kernel THEN Append(annotations, <<func, "kernel", 1>>)
    ELSE annotations

amendLLVMFunc_AlwaysKernel(annotations, func, metadata) ==
    LET a1 == IF metadata.maxntidx > 0
              THEN Append(annotations, <<func, "maxntidx", metadata.maxntidx>>)
              ELSE annotations
    IN  Append(a1, <<func, "kernel", 1>>)

amendLLVMFunc_Overwrite(annotations, func, metadata) ==
    LET a1 == IF metadata.maxntidx > 0
              THEN <<<<func, "maxntidx", metadata.maxntidx>>>>
              ELSE annotations
    IN  IF metadata.is_kernel THEN Append(a1, <<func, "kernel", 1>>) ELSE a1

amendLLVMFunc_NonNegative(annotations, func, metadata) ==
    LET a1 == IF metadata.maxntidx >= 0
              THEN Append(annotations, <<func, "maxntidx", metadata.maxntidx>>)
              ELSE annotations
    IN  IF metadata.is_kernel THEN Append(a1, <<func, "kernel", 1>>) ELSE a1

amendLLVMFunc(annotations, func, metadata) ==
    LET a1 == IF metadata.maxntidx > 0
              THEN Append(annotations, <<func, "maxntidx", metadata.maxntidx>>)
              ELSE annotations
    IN  IF metadata.is_kernel THEN Append(a1, <<func, "kernel", 1>>) ELSE a1

RECURSIVE Reattach(_, _, _)
Reattach(functions, annotations, dic) ==
    IF functions = << >> THEN annotations
    ELSE Reattach(Tail(functions),
                  IF Head(functions) \in DOMAIN dic
                  THEN amendLLVMFunc(annotations, Head(functions), dic[Head(functions)])
                  ELSE annotations,
                  dic)

\* amendLLVMFunc is called for at least one function
Amends(functions, dic) == \E i \in 1..Len(functions) : functions[i] \in DOMAIN dic

(***************************************************************************)
(* TranslateLLVMToLLVMIR                                                   *)
(***************************************************************************)
NoModule == [valid |-> FALSE, functions |-> << >>, annotations |-> << >>]

Module(fs, anns) == [valid |-> TRUE, functions |-> fs, annotations |-> anns]

TranslateFailed_Never(m) == FALSE

\* if (!llvmModule)
TranslateFailed(m) == ~m.valid

OptimizeFailed_Never(err) == FALSE

\* if (auto err = optPipeline(llvmModule.get()))
OptimizeFailed(err) == err # "success"

OptimizeMessage_NoDescription(err) == <<"Failed to optimize LLVM IR ", "\n">>

OptimizeMessage(err) == <<"Failed to optimize LLVM IR ", err, "\n">>

Init ==
    /\ pc = "idle"
    /\ srcModule = << >>
    /\ nvvmMetadata = EmptyTable
    /\ llvmModule = NoModule
    /\ preAnnotations = << >>
    /\ result = NoModule
    /\ errs = << >>
    /\ steps = {}
    /\ translatorResult = "pending"
    /\ optimizerResult = "pending"
    /\ prevKeys = {}
    /\ dialectRegistered = FALSE
    /\ llvmInitialized = FALSE

\* entry of TranslateLLVMToLLVMIR: registration and the declaration of the table
Call ==
    /\ pc = "idle"
    /\ \E module \in ModuleOps : srcModule' = module
    /\ dialectRegistered' = TRUE
    /\ nvvmMetadata' = NewSideTable(nvvmMetadata)
    /\ prevKeys' = DOMAIN nvvmMetadata
    /\ llvmModule' = NoModule
    /\ preAnnotations' = << >>
    /\ result' = NoModule
    /\ errs' = << >>
    /\ steps' = {}
    /\ translatorResult' = "pending"
    /\ optimizerResult' = "pending"
    /\ pc' = "extract"
    /\ UNCHANGED llvmInitialized

\* extractNVVMMetadata(module, &nvvmMetadata)
Extract ==
    /\ pc = "extract"
    /\ \E ops \in Orders(DOMAIN srcModule), ub \in UBOutcomes :
          LET r == extractNVVMMetadata(ops, srcModule, nvvmMetadata, ub)
          IN  /\ nvvmMetadata' = r.dic
              /\ pc' = IF r.crashed THEN "crashed" ELSE "translate"
    /\ steps' = steps \cup {"extract"}
    /\ UNCHANGED <<srcModule, llvmModule, preAnnotations, result, errs, translatorResult,
                   optimizerResult, prevKeys, dialectRegistered, llvmInitialized>>

\* mlir::translateModuleToLLVMIR and the check of its result
Translate ==
    /\ pc = "translate"
    /\ \E m \in {NoModule} \cup {Module(fs, anns) : fs \in FunctionLists, anns \in PreSeqs} :
          /\ translatorResult' = IF m.valid THEN "module" ELSE "none"
          /\ llvmModule' = m
          /\ IF TranslateFailed(m)
             THEN /\ errs' = errs \o <<"Failed to emit LLVM IR\n">>
                  /\ result' = NoModule
                  /\ pc' = "done"
             ELSE /\ pc' = "optimize"
                  /\ UNCHANGED <<errs, result>>
    /\ steps' = steps \cup {"translate"}
    /\ UNCHANGED <<srcModule, nvvmMetadata, preAnnotations, optimizerResult, prevKeys,
                   dialectRegistered, llvmInitialized>>

\* init_llvm, setupTargetTriple, the optimising transformer and the check of its result
Optimize ==
    /\ pc = "optimize"
    /\ llvmInitialized' = TRUE
    /\ \E err \in {"success"} \cup OptErrors, fs \in FunctionLists :
          /\ optimizerResult' = err
          /\ IF OptimizeFailed(err)
             THEN /\ errs' = errs \o OptimizeMessage(err)
                  /\ result' = NoModule
                  /\ llvmModule' = NoModule
                  /\ preAnnotations' = << >>
                  /\ pc' = "done"
             ELSE /\ llvmModule' = [llvmModule EXCEPT !.functions = fs]
                  /\ preAnnotations' = llvmModule.annotations
                  /\ pc' = "reattach"
                  /\ UNCHANGED <<errs, result>>
    /\ steps' = steps \cup {"optimize"}
    /\ UNCHANGED <<srcModule, nvvmMetadata, translatorResult, prevKeys, dialectRegistered>>

\* the loop over llvmModule->functions() and the return of the module
ReattachAndReturn ==
    /\ pc = "reattach"
    /\ result' = [llvmModule EXCEPT
                     !.annotations = Reattach(llvmModule.functions, llvmModule.annotations,
                                              nvvmMetadata)]
    /\ llvmModule' = NoModule
    /\ steps' = steps \cup {"reattach"}
                      \cup (IF Amends(llvmModule.functions, nvvmMetadata) THEN {"amend"} ELSE {})
    /\ pc' = "done"
    /\ UNCHANGED <<srcModule, nvvmMetadata, preAnnotations, errs, translatorResult,
                   optimizerResult, prevKeys, dialectRegistered, llvmInitialized>>

\* the caller takes the result; the process is ready for the next request
Release ==
    /\ pc = "done"
    /\ pc' = "idle"
    /\ srcModule' = << >>
    /\ llvmModule' = NoModule
    /\ preAnnotations' = << >>
    /\ result' = NoModule
    /\ errs' = << >>
    /\ steps' = {}
    /\ translatorResult' = "pending"
    /\ optimizerResult' = "pending"
    /\ UNCHANGED <<nvvmMetadata, prevKeys, dialectRegistered, llvmInitialized>>

Next == Call \/ Extract \/ Translate \/ Optimize \/ ReattachAndReturn \/ Release

Spec == Init /\ [][Next]_vars

(***************************************************************************)
(* Vocabulary of the properties                                            *)
(***************************************************************************)
Returned == pc = "done" /\ result.valid

Appended == SubSeq(result.annotations, Len(preAnnotations) + 1, Len(result.annotations))

AppendedEntries == {Appended[i] : i \in 1..Len(Appended)}

Present(n) == \E i \in 1..Len(result.functions) : result.functions[i] = n

Annotations == {result.annotations[i] : i \in 1..Len(result.annotations)}

Malformed(n) == srcModule[n].maxntid.kind = "str"

Recognized(n) == srcModule[n].maxntid.kind # "none" \/ srcModule[n].kernel

TranslationFailed == translatorResult = "none"

OptimizationFailed == optimizerResult \in OptErrors

AfterExtraction == pc \in {"translate", "optimize", "reattach", "done"}

(***************************************************************************)
(* C1 (as stated): for every source function with the entry-point          *)
(* attribute and/or a thread-group-limit attribute of ANY integer value,   *)
(* if its name is present in the returned module, nvvm.annotations holds   *)
(* (f, "kernel", 1) when it was entry-point and (f, "maxntidx", v) with v  *)
(* equal to the source value when it was thread-group-limited.             *)
(***************************************************************************)
C1_PreservationAnyInteger ==
    Returned =>
        \A n \in DOMAIN srcModule :
            Present(n) =>
                /\ srcModule[n].kernel => <<n, "kernel", 1>> \in Annotations
                /\ srcModule[n].maxntid.kind = "int" =>
                       \E e \in Annotations :
                           /\ e[1] = n /\ e[2] = "maxntidx"
                           /\ srcModule[n].maxntid.hi = (IF e[3] < 0 THEN -1 ELSE 0)
                           /\ srcModule[n].maxntid.lo = e[3]

(***************************************************************************)
(* C1 (amended): the same, for a thread-group limit whose value lies in    *)
(* 1 .. 2^31-1; the entry-point part is unchanged.                         *)
(***************************************************************************)
C1_Preservation ==
    Returned =>
        \A n \in DOMAIN srcModule :
            Present(n) =>
                /\ srcModule[n].kernel => <<n, "kernel", 1>> \in Annotations
                /\ (/\ srcModule[n].maxntid.kind = "int"
                    /\ srcModule[n].maxntid.hi = 0
                    /\ srcModule[n].maxntid.lo \in 1..INT32_MAX) =>
                       <<n, "maxntidx", srcModule[n].maxntid.lo>> \in Annotations

C1_Witness ==
    /\ Returned
    /\ \E n \in DOMAIN srcModule :
          /\ Present(n)
          /\ srcModule[n].kernel
          /\ srcModule[n].maxntid = I64(0, 256)
          /\ <<n, "maxntidx", 256>> \in AppendedEntries
          /\ <<n, "kernel", 1>> \in AppendedEntries

(***************************************************************************)
(* C2: every entry appended to nvvm.annotations names a function that is a *)
(* key of the side-table with a non-default value for the entry's field    *)
(* and that is present in the optimised module; an annotated function the  *)
(* optimiser eliminated gets no entry.                                     *)
(***************************************************************************)
C2_NonFabrication ==
    Returned =>
        /\ \A e \in AppendedEntries :
              /\ e[1] \in DOMAIN nvvmMetadata
              /\ Present(e[1])
              /\ e[2] \in {"kernel", "maxntidx"}
              /\ e[2] = "kernel" => nvvmMetadata[e[1]].is_kernel /\ e[3] = 1
              /\ e[2] = "maxntidx" =>
                     nvvmMetadata[e[1]].maxntidx # -1 /\ e[3] = nvvmMetadata[e[1]].maxntidx
        /\ \A n \in DOMAIN nvvmMetadata :
              ~Present(n) => \A e \in AppendedEntries : e[1] # n

C2_Witness ==
    /\ Returned
    /\ AppendedEntries # {}
    /\ \E n \in DOMAIN nvvmMetadata :
          /\ ~Present(n)
          /\ ~nvvmMetadata[n].is_kernel
          /\ nvvmMetadata[n].maxntidx > 0
    /\ \E n \in DOMAIN nvvmMetadata : Present(n)

(***************************************************************************)
(* C3: after re-attachment the entries nvvm.annotations held before it are *)
(* all still there, unchanged and in their order, as a prefix of the       *)
(* collection.                                                             *)
(***************************************************************************)
C3_Additivity ==
    Returned =>
        /\ Len(preAnnotations) <= Len(result.annotations)
        /\ SubSeq(result.annotations, 1, Len(preAnnotations)) = preAnnotations

C3_Witness ==
    /\ Returned
    /\ Len(preAnnotations) = 2
    /\ preAnnotations[1] # preAnnotations[2]
    /\ Len(result.annotations) > 3

(***************************************************************************)
(* C4: when the translator returns no module, the call returns null and    *)
(* neither the optimisation pipeline nor amendLLVMFunc is executed.        *)
(***************************************************************************)
C4_TranslationFailFast ==
    TranslationFailed =>
        /\ pc = "done"
        /\ ~result.valid
        /\ ~llvmModule.valid
        /\ optimizerResult = "pending"
        /\ "optimize" \notin steps
        /\ "amend" \notin steps

C4_Witness ==
    /\ TranslationFailed
    /\ pc = "done"
    /\ errs = <<"Failed to emit LLVM IR\n">>
    /\ \E n \in DOMAIN nvvmMetadata : nvvmMetadata[n].is_kernel

(***************************************************************************)
(* C5: when the optimisation pipeline reports an error, the call returns   *)
(* null, the error description is on the diagnostic channel, the           *)
(* re-attachment is not reached and the module is not returned.            *)
(***************************************************************************)
C5_OptimizationFailFast ==
    OptimizationFailed =>
        /\ pc = "done"
        /\ ~result.valid
        /\ \E i \in 1..Len(errs) : errs[i] = optimizerResult
        /\ "reattach" \notin steps
        /\ "amend" \notin steps

C5_Witness ==
    /\ OptimizationFailed
    /\ pc = "done"
    /\ translatorResult = "module"
    /\ \E n \in DOMAIN nvvmMetadata : nvvmMetadata[n].maxntidx > 0

(***************************************************************************)
(* C6 (as stated): when a thread-group-limit attribute is not an integer   *)
(* attribute, extraction ends in an error outcome with a descriptive       *)
(* message; it never continues with a coerced or default value and never   *)
(* produces a record or a successful result.                               *)
(***************************************************************************)
C6_MalformedFailsFast ==
    ("extract" \in steps /\ \E n \in DOMAIN srcModule : Malformed(n)) =>
        /\ pc = "done"
        /\ ~result.valid
        /\ errs # << >>
        /\ translatorResult = "pending"
        /\ \A n \in DOMAIN srcModule : Malformed(n) => n \notin DOMAIN nvvmMetadata

(***************************************************************************)
(* C7 (as stated): when the translator returns no module, neither the      *)
(* extraction nor the re-attachment is executed in that request.           *)
(***************************************************************************)
C7_NoAnnotationWork ==
    TranslationFailed => "extract" \notin steps /\ "reattach" \notin steps

(***************************************************************************)
(* C7 (amended): when the translator returns no module, the re-attachment  *)
(* is not executed in that request; the extraction has already run, before *)
(* the translator was called.                                              *)
(***************************************************************************)
C7_NoReattachment ==
    TranslationFailed => "extract" \in steps /\ "reattach" \notin steps

C7_Witness ==
    /\ TranslationFailed
    /\ "extract" \in steps
    /\ \E n \in DOMAIN srcModule : Recognized(n) /\ n \in DOMAIN nvvmMetadata

(***************************************************************************)
(* C8: the side-table of each call starts empty and holds only records of  *)
(* that call's own source module, so no appended entry derives from the    *)
(* annotations of another request's module, shared names included.         *)
(***************************************************************************)
C8_SideTableIsolation ==
    /\ pc = "extract" => nvvmMetadata = << >>
    /\ pc \notin {"idle", "extract"} =>
          \A n \in DOMAIN nvvmMetadata :
              /\ n \in DOMAIN srcModule
              /\ Recognized(n)
              /\ nvvmMetadata[n].is_kernel => srcModule[n].kernel
              /\ nvvmMetadata[n].maxntidx # -1 => srcModule[n].maxntid.kind # "none"
    /\ Returned =>
          \A e \in AppendedEntries :
              /\ e[1] \in DOMAIN srcModule
              /\ e[2] = "kernel" => srcModule[e[1]].kernel
              /\ e[2] = "maxntidx" => srcModule[e[1]].maxntid.kind # "none"

C8_Witness ==
    /\ Returned
    /\ \E n \in prevKeys :
          /\ n \in DOMAIN srcModule
          /\ ~Recognized(n)
          /\ Present(n)
          /\ \A e \in AppendedEntries : e[1] # n

(***************************************************************************)
(* C9: after extractNVVMMetadata a name is a key of the side-table exactly *)
(* when the function of that name carries a recognized attribute, there is *)
(* one record per name, and the records are those the attributes           *)
(* determine, whatever the iteration order was.                            *)
(***************************************************************************)
C9_SideTableMinimal ==
    AfterExtraction =>
        /\ DOMAIN nvvmMetadata = {n \in DOMAIN srcModule : Recognized(n)}
        /\ \A n \in DOMAIN nvvmMetadata :
              /\ nvvmMetadata[n].is_kernel = srcModule[n].kernel
              /\ srcModule[n].maxntid.kind = "none" => nvvmMetadata[n].maxntidx = -1
              /\ srcModule[n].maxntid.kind = "int" =>
                     nvvmMetadata[n].maxntidx = srcModule[n].maxntid.lo

C9_Witness ==
    /\ pc = "translate"
    /\ \E n, m \in DOMAIN srcModule :
          /\ ~Recognized(n) /\ n \notin DOMAIN nvvmMetadata
          /\ srcModule[m].kernel /\ srcModule[m].maxntid.kind = "none"
          /\ m \in DOMAIN nvvmMetadata

(***************************************************************************)
(* C10: every appended "maxntidx" entry carries a value in 1 .. 2^31-1,    *)
(* the low 32 bits of the source value; a record whose limit is <= 0 emits *)
(* no "maxntidx" entry.                                                    *)
(***************************************************************************)
C10_PositiveInt32 ==
    Returned =>
        /\ \A e \in AppendedEntries :
              e[2] = "maxntidx" =>
                  /\ e[3] \in 1..INT32_MAX
                  /\ (e[1] \in DOMAIN srcModule /\ srcModule[e[1]].maxntid.kind = "int") =>
                         e[3] = srcModule[e[1]].maxntid.lo
        /\ \A n \in DOMAIN nvvmMetadata :
              nvvmMetadata[n].maxntidx <= 0 =>
                  \A e \in AppendedEntries : ~(e[1] = n /\ e[2] = "maxntidx")

C10_Witness ==
    /\ Returned
    /\ \E n, m \in DOMAIN srcModule :
          /\ srcModule[n].maxntid = I64(1, 256)
          /\ <<n, "maxntidx", 256>> \in AppendedEntries
          /\ srcModule[m].maxntid = I64(0, -1)
          /\ Present(m)
          /\ \A e \in AppendedEntries : ~(e[1] = m /\ e[2] = "maxntidx")

====
